---- MODULE Spec2Model ----
(***************************************************************************)
(* Bounded multi-level contact-extraction crawler of                       *)
(* src/services/contact_extractor.py (class ContactExtractor) together     *)
(* with its configuration, src/config/settings.py.                         *)
(*                                                                         *)
(* Strings are TLA+ strings; the Python string methods the extractor uses  *)
(* (strip, split, replace, startswith, lower, the "in" substring test and  *)
(* the three regular expressions) are operators over them.                 *)
(***************************************************************************)
EXTENDS Integers, Sequences, FiniteSets, TLC

(***************************************************************************)
(* Python string primitives                                                *)
(***************************************************************************)
None == "<None>"

Ch(s, i) == SubSeq(s, i, i)

CharsOf(s) == {Ch(s, i) : i \in 1..Len(s)}

LowerLetters == CharsOf("abcdefghijklmnopqrstuvwxyz")

UpperLetters == CharsOf("ABCDEFGHIJKLMNOPQRSTUVWXYZ")

Digits == CharsOf("0123456789")

Whitespace == {" ", "\n", "\t", "\r"}

SetMax(S) == CHOOSE m \in S : \A k \in S : k <= m

SetMin(S) == CHOOSE m \in S : \A k \in S : m <= k

\* str.startswith(prefix)
StartsWith(s, p) == Len(p) <= Len(s) /\ SubSeq(s, 1, Len(p)) = p

\* the positions at which p occurs in s
Occurrences(s, p) == {i \in 1..(Len(s) - Len(p) + 1) : SubSeq(s, i, i + Len(p) - 1) = p}

\* p in s
Contains(s, p) == Occurrences(s, p) # {}

\* str.lower() of one character
LowerChar(c) ==
    IF c \in UpperLetters
    THEN LET ABC == "ABCDEFGHIJKLMNOPQRSTUVWXYZ"
             abc == "abcdefghijklmnopqrstuvwxyz"
             k == CHOOSE j \in 1..26 : Ch(ABC, j) = c
         IN Ch(abc, k)
    ELSE c

RECURSIVE Lower(_)
\* str.lower()
Lower(s) ==
    IF s = "" THEN ""
    ELSE IF Len(s) = 1 THEN LowerChar(s)
    ELSE LET h == Len(s) \div 2
         IN Lower(SubSeq(s, 1, h)) \o Lower(SubSeq(s, h + 1, Len(s)))

\* str.strip()
Strip(s) ==
    LET keep == {i \in 1..Len(s) : Ch(s, i) \notin Whitespace}
    IN IF keep = {} THEN "" ELSE SubSeq(s, SetMin(keep), SetMax(keep))

RECURSIVE Split(_, _)
\* str.split(sep) for a one-character separator
Split(s, sep) ==
    LET at == Occurrences(s, sep)
    IN IF at = {} THEN <<s>>
       ELSE LET i == SetMin(at)
            IN <<SubSeq(s, 1, i - 1)>> \o Split(SubSeq(s, i + 1, Len(s)), sep)

RECURSIVE Replace(_, _)
\* str.replace(old, '')
Replace(s, old) ==
    LET at == Occurrences(s, old)
    IN IF at = {} THEN s
       ELSE LET i == SetMin(at)
            IN SubSeq(s, 1, i - 1) \o Replace(SubSeq(s, i + Len(old), Len(s)), old)

\* list[:n] for n >= 0
Take(list, n) == SubSeq(list, 1, IF n < Len(list) THEN n ELSE Len(list))

Range(f) == {f[i] : i \in DOMAIN f}

(***************************************************************************)
(* Validation predicates of the extractor                                  *)
(***************************************************************************)
FAKE_EMAIL_PATTERNS ==
    {"git@github.com", "noreply@github.com", "example@", "test@", "demo@",
     "user@example", "your-email@", "email@example.com", "sample@",
     "no-reply@", "donotreply@", "support@github.com"}

_is_valid_email(email) ==
    IF email = None \/ email = "" \/ Len(email) < 5 THEN FALSE
    ELSE LET email_lower == Lower(email)
         IN IF \E pattern \in FAKE_EMAIL_PATTERNS : Contains(email_lower, pattern) THEN FALSE
            ELSE IF ~Contains(email, "@") \/ ~Contains(Split(email, "@")[2], ".") THEN FALSE
            ELSE TRUE

_is_valid_url(url) ==
    IF url = None \/ url = "" THEN FALSE
    ELSE StartsWith(url, "http://") \/ StartsWith(url, "https://")

personal_indicators ==
    {"github.io", "gitlab.io", "netlify.app", "vercel.app",
     "personal", "portfolio", "blog", "me.", "my.", ".me"}

_is_personal_site(url) ==
    LET url_lower == Lower(url)
    IN \E indicator \in personal_indicators : Contains(url_lower, indicator)

skip_patterns ==
    {"/topics/", "/trending/", "/hashtag/", "/search/",
     "github.com/topics", "github.com/trending",
     "linkedin.com/feed", "twitter.com/search"}

good_patterns ==
    {"/contact", "/about", "/cv", "/resume", "/portfolio",
     "contact.", "about.", ".me", "personal", "bio"}

\* variant: the patterns are looked for in the url as written
_is_safe_drill_down_link_as_written(url, parent_url) ==
    IF \E pattern \in skip_patterns : Contains(url, pattern) THEN FALSE
    ELSE (\E pattern \in good_patterns : Contains(url, pattern)) \/ url # parent_url

_is_safe_drill_down_link(url, parent_url) ==
    LET url_lower == Lower(url)
    IN IF \E pattern \in skip_patterns : Contains(url_lower, pattern) THEN FALSE
       ELSE (\E pattern \in good_patterns : Contains(url_lower, pattern)) \/ url # parent_url

(***************************************************************************)
(* The regular expressions of the deterministic field extractor            *)
(***************************************************************************)
Letters == LowerLetters \cup UpperLetters

WordChars == Letters \cup Digits \cup {"_"}

\* [A-Za-z0-9._%+-]
EmailLocalChars == Letters \cup Digits \cup {".", "_", "%", "+", "-"}

\* [A-Za-z0-9.-]
EmailDomainChars == Letters \cup Digits \cup {".", "-"}

\* [A-Z|a-z]
EmailTldChars == Letters \cup {"|"}

\* [a-zA-Z0-9-]
HandleChars == Letters \cup Digits \cup {"-"}

\* [a-zA-Z0-9_]
TwitterHandleChars == Letters \cup Digits \cup {"_"}

IsWordAt(s, i) == i >= 1 /\ i <= Len(s) /\ Ch(s, i) \in WordChars

\* \b between the characters i-1 and i
WordBoundary(s, i) == IsWordAt(s, i - 1) # IsWordAt(s, i)

\* last index of the longest run of Class characters that starts at i (i-1 if none)
RunEnd(s, i, Class) ==
    LET stops == {j \in i..Len(s) : Ch(s, j) \notin Class}
    IN IF stops = {} THEN Len(s) ELSE SetMin(stops) - 1

\* ends e of the top-level-domain part for a domain part that ends at p
EmailTldEnds(s, p) ==
    {e \in (p + 3)..RunEnd(s, p + 2, EmailTldChars) : WordBoundary(s, e + 1)}

\* end of the match whose domain part may end at any p of ps (greedy: the last
\* p, then the longest top-level domain), 0 if ps is empty
EmailTldEnd(s, ps) == IF ps = {} THEN 0 ELSE SetMax(EmailTldEnds(s, SetMax(ps)))

\* end of the match whose local part ends just before a, 0 if none
EmailDomainEnd(s, a) ==
    IF a > Len(s) \/ Ch(s, a) # "@" THEN 0
    ELSE EmailTldEnd(s, {p \in (a + 1)..(RunEnd(s, a + 1, EmailDomainChars) - 1) :
                           Ch(s, p + 1) = "." /\ EmailTldEnds(s, p) # {}})

\* index of the last character of the match of email_pattern that starts at i, 0 if none
EmailMatchEnd(s, i) ==
    IF ~(Ch(s, i) \in EmailLocalChars /\ WordBoundary(s, i)) THEN 0
    ELSE EmailDomainEnd(s, RunEnd(s, i, EmailLocalChars) + 1)

RECURSIVE EmailFindAllFrom(_, _)
RECURSIVE EmailFindAllAt(_, _)
\* the match that starts at i and the matches after it
EmailFindAllAt(s, i) ==
    IF i > Len(s) THEN <<>>
    ELSE <<SubSeq(s, i, EmailMatchEnd(s, i))>> \o EmailFindAllFrom(s, EmailMatchEnd(s, i) + 1)

\* the matches from position pos on, left to right, not overlapping
EmailFindAllFrom(s, pos) ==
    EmailFindAllAt(s, SetMin({i \in pos..Len(s) : EmailMatchEnd(s, i) # 0} \cup {Len(s) + 1}))

\* email_pattern.findall(content)
EmailFindAll(s) == EmailFindAllFrom(s, 1)

\* TRUE iff the literal p stands at index i of the lowercased text ls
LiteralAt(ls, i, p) == i + Len(p) - 1 <= Len(ls) /\ SubSeq(ls, i, i + Len(p) - 1) = p

\* the indices where `prefix([class]+)` matches
HandleHits(s, ls, prefixes, Class) ==
    {i \in 1..Len(s) :
       \E p \in prefixes : LiteralAt(ls, i, p) /\ RunEnd(s, i + Len(p), Class) >= i + Len(p)}

\* the group of the match with prefix p at index i
HandleAt(s, i, p, Class) == SubSeq(s, i + Len(p), RunEnd(s, i + Len(p), Class))

\* the group of the leftmost match, as a list
HandleFirst(s, ls, hits, prefixes, Class) ==
    IF hits = {} THEN <<>>
    ELSE <<HandleAt(s, SetMin(hits),
                    CHOOSE q \in prefixes : LiteralAt(ls, SetMin(hits), q), Class)>>

\* pattern.findall(content) for `prefix([class]+)` under re.IGNORECASE, where
\* prefix is one of the literal alternatives `prefixes`
HandleFindAll(s, prefixes, Class) ==
    HandleFirst(s, Lower(s), HandleHits(s, Lower(s), prefixes, Class), prefixes, Class)

Platforms == <<"linkedin", "twitter", "github">>

\* the literal alternatives in front of the group of SOCIAL_PATTERNS[platform]
SocialPrefixes(platform) ==
    IF platform = "linkedin" THEN {"linkedin.com/in/"}
    ELSE IF platform = "twitter" THEN {"twitter.com/", "x.com/"}
    ELSE {"github.com/"}

\* the character class of the group of SOCIAL_PATTERNS[platform]
SocialHandleChars(platform) == IF platform = "twitter" THEN TwitterHandleChars ELSE HandleChars

\* SOCIAL_PATTERNS[platform].findall(content), reduced to its first match
SocialFindAll(platform, s) ==
    HandleFindAll(s, SocialPrefixes(platform), SocialHandleChars(platform))

\* variant: the url is built without the in/ of LinkedIn
SocialUrl_without_in(platform, handle) == "https://" \o platform \o ".com/" \o handle

\* f"https://{platform}.com/{'in/' if platform == 'linkedin' else ''}{matches[0]}"
SocialUrl(platform, handle) ==
    "https://" \o platform \o ".com/" \o (IF platform = "linkedin" THEN "in/" ELSE "") \o handle

(***************************************************************************)
(* Inputs: configurations, profiles, pages and oracle responses            *)
(***************************************************************************)
\* largest max_drilling_depth among the configurations explored
MaxDepthCfg == 4

\* ContactExtractionConfig.__post_init__
DefaultLinksPerLevel == (0 :> 4) @@ (1 :> 3) @@ (2 :> 2)

\* a configuration that allows one link per page at level 1 and leaves level 2 out
TightLinksPerLevel == (0 :> 1) @@ (1 :> 1)

\* a configuration with two links per page at level 1 and one at level 2, so
\* that a link at level 1 has a subtree and a sibling after it
PairLinksPerLevel == (0 :> 1) @@ (1 :> 2) @@ (2 :> 1)

\* ContactExtractionConfig.max_drilling_depth of config/settings.py
DefaultDepth == 2

\* has_request_timeout tells whether the configuration object has the attribute
\* request_timeout that _scrape_url reads: config/settings.py names the field
\* `timeout`, config/settings_backup.py names it `request_timeout`.
\* The default link budgets are explored up to the default depth, the tight
\* ones up to MaxDepthCfg, the pair budgets one level past the default depth.
Configs ==
    [max_drilling_depth : 1..DefaultDepth,
     max_links_per_level : {DefaultLinksPerLevel},
     has_request_timeout : BOOLEAN]
    \cup
    [max_drilling_depth : 1..MaxDepthCfg,
     max_links_per_level : {TightLinksPerLevel},
     has_request_timeout : BOOLEAN]
    \cup
    [max_drilling_depth : {DefaultDepth + 1},
     max_links_per_level : {PairLinksPerLevel},
     has_request_timeout : {TRUE}]

SiteUrl == "https://janedoe.me"

CompanyUrl == "https://acme.com/team"

ProfileUrl == "https://github.com/janedoe"

ContactUrl == "https://janedoe.me/contact"

AboutUrl == "https://janedoe.me/about"

CvUrl == "https://janedoe.me/cv"

OtherUrl == "https://acme.com/jd"

ResumeUrl == "https://janedoe.me/resume"

TopicsUrl == "https://GitHub.com/Topics/ML"

\* extra_data is None (is_none) or the source's user object
NoExtraData == [is_none |-> TRUE, html_url |-> None, bio |-> None]

\* calls extract_from_profile(profile_data, source_type, extra_data)
Calls ==
    {[profile_data |-> [email |-> "jane@company.com", blog |-> SiteUrl, website |-> None,
                        twitter_username |-> "janedoe", html_url |-> ProfileUrl],
      source_type |-> "github",
      extra_data |-> [is_none |-> FALSE, html_url |-> ProfileUrl,
                      bio |-> "ML dev. jd@uni.edu or git@github.com, linkedin.com/in/janedoe, x.com/jane_d"]],
     [profile_data |-> [email |-> "noreply@github.com", blog |-> "", website |-> CompanyUrl,
                        twitter_username |-> None, html_url |-> ProfileUrl],
      source_type |-> "github",
      extra_data |-> [is_none |-> FALSE, html_url |-> ProfileUrl, bio |-> None]],
     [profile_data |-> [email |-> None, blog |-> None, website |-> None,
                        twitter_username |-> None, html_url |-> ProfileUrl],
      source_type |-> "github",
      extra_data |-> [is_none |-> FALSE, html_url |-> ProfileUrl,
                      bio |-> "git@github.com noreply@github.com"]],
     [profile_data |-> [email |-> "a@b", blog |-> "janedoe.me", website |-> None,
                        twitter_username |-> "janedoe", html_url |-> None],
      source_type |-> "twitter",
      extra_data |-> NoExtraData],
     [profile_data |-> [email |-> None, blog |-> ProfileUrl, website |-> None,
                        twitter_username |-> None, html_url |-> ProfileUrl],
      source_type |-> "github",
      extra_data |-> [is_none |-> FALSE, html_url |-> ProfileUrl, bio |-> ""]]}

\* a page of at most 100 characters
ShortPage == "Contact: bob@corp.io, test@corp.io. https://linkedin.com/in/bob-b x.com/bob_b"

\* a page of more than 100 characters
LongPage ==
    "Jane Doe - machine learning engineer. Write to jane@company.com (not noreply@github.com). "
    \o "Profiles: https://linkedin.com/in/janedoe and https://github.com/janedoe . Phone on request."

\* what requests.get does: it raises (timeout, connection error) or returns a
\* response with a status code and a text
HttpOutcomes ==
    {[raises |-> TRUE, status |-> 0, text |-> ""],
     [raises |-> FALSE, status |-> 404, text |-> "Not Found"],
     [raises |-> FALSE, status |-> 200, text |-> ShortPage],
     [raises |-> FALSE, status |-> 200, text |-> LongPage]}

FieldLines ==
    "EMAILS: jane@company.com, noreply@github.com, j.doe@uni.edu\n"
    \o "LINKEDIN: https://linkedin.com/in/janedoe\n"
    \o "TWITTER: @janedoe\n"
    \o "PHONE: +61 400 000 000\n"
    \o "WEBSITE: https://jane.blog\n"

\* five candidates, all acceptable
FiveLinksResponse ==
    FieldLines \o "NEXT_LINKS: " \o ContactUrl \o ", " \o AboutUrl \o ", " \o CvUrl
               \o ", " \o OtherUrl \o ", " \o ResumeUrl

\* a denylisted link, a repeated link, a relative link and the profile page
MixedLinksResponse ==
    "EMAILS: None\nTWITTER: https://x.com/jd\nPHONE: None\nNEXT_LINKS: " \o TopicsUrl \o ", "
    \o ContactUrl \o ", " \o ContactUrl \o ", /contact, " \o ProfileUrl

\* links back to the seeds
BackLinksResponse ==
    "EMAILS: git@github.com\nNEXT_LINKS: " \o OtherUrl \o ", " \o ProfileUrl \o ", " \o SiteUrl

NoLinksResponse == "EMAILS: test@example.com, jane@company.com\nNEXT_LINKS: None"

\* none of the expected lines
ProseResponse == "I could not find any contact information on this page."

Responses ==
    {FiveLinksResponse, MixedLinksResponse, BackLinksResponse, NoLinksResponse, ProseResponse}

\* the chat completion call raises
ApiError == "<APIError>"

\* what the chat completion call does: it raises (ApiError), returns a message
\* without content (None) or returns a text
OracleOutcomes == {ApiError, None} \cup Responses

(***************************************************************************)
(* String-level work on the inputs, computed once per input string          *)
(***************************************************************************)
\* Optional[str] truthiness
Truthy(v) == v # None /\ v # ""

\* the keys of the if/elif chain of the line loop, in its order
LineKeys == <<"EMAILS:", "LINKEDIN:", "TWITTER:", "PHONE:", "WEBSITE:", "NEXT_LINKS:">>

\* the keys whose value is split at commas
ListKeys == {"EMAILS:", "NEXT_LINKS:"}

\* the key of the branch that takes the stripped line, "" if no branch does
LineKind(line) ==
    IF \E k \in DOMAIN LineKeys : StartsWith(line, LineKeys[k])
    THEN LineKeys[SetMin({k \in DOMAIN LineKeys : StartsWith(line, LineKeys[k])})]
    ELSE ""

\* [e.strip() for e in value.split(',')]
StripAll(ps) == [k \in DOMAIN ps |-> Strip(ps[k])]

Token(kind, value) ==
    [kind |-> kind, value |-> value,
     parts |-> IF kind \in ListKeys THEN StripAll(Split(value, ",")) ELSE <<>>]

\* value = line.replace(key, '').strip()
KeyedToken(line, kind) == Token(kind, IF kind = "" THEN line ELSE Strip(Replace(line, kind)))

\* the part of the line loop of _parse_llm_response that only looks at the line
LineToken(raw) == KeyedToken(Strip(raw), LineKind(Strip(raw)))

\* lines = response.split('\n'), each line stripped and split as the loop does
TokenAll(lines) == [k \in DOMAIN lines |-> LineToken(lines[k])]

ResponseTokens(response) == TokenAll(Split(response, "\n"))

ResponseTokensTable == [r \in Responses |-> ResponseTokens(r)]

TokensOf(response) ==
    IF response \in Responses THEN ResponseTokensTable[response] ELSE ResponseTokens(response)

\* texts handed to the regex extractor on its own
RoundTripText == "jane@company.com https://linkedin.com/in/janedoe"

MixedCaseText == "Reach Jane.Doe@Company.COM, LinkedIn.com/in/Jane-Doe or X.com/jane_d"

RepeatedText == "github.com/janedoe github.com/other twitter.com/first twitter.com/second"

DottedHandleText == "www.linkedin.com/in/jane.doe and test@corp.io"

PlainText == "no contact here"

RegexTexts == {RoundTripText, MixedCaseText, RepeatedText, DottedHandleText, PlainText}

KnownTexts ==
    {ShortPage, LongPage} \cup RegexTexts
    \cup {c.extra_data.bio : c \in {d \in Calls : Truthy(d.extra_data.bio)}}

EmailFindAllTable == [t \in KnownTexts |-> EmailFindAll(t)]

SocialFindAllTable ==
    [k \in 1..Len(Platforms) |-> [t \in KnownTexts |-> SocialFindAll(Platforms[k], t)]]

FindEmails(text) == EmailFindAllTable[text]

FindHandles(k, text) == SocialFindAllTable[k][text]

TokensOfKind(kind) ==
    {t \in UNION {Range(ResponseTokensTable[r]) : r \in Responses} : t.kind = kind}

KnownEmails ==
    ({c.profile_data.email : c \in Calls} \ {None})
    \cup UNION {Range(EmailFindAllTable[t]) : t \in KnownTexts}
    \cup UNION {Range(t.parts) : t \in TokensOfKind("EMAILS:")}

KnownLinks == UNION {Range(t.parts) : t \in TokensOfKind("NEXT_LINKS:")}

KnownSites ==
    ({c.profile_data.blog : c \in Calls} \cup {c.profile_data.website : c \in Calls}
       \cup {t.value : t \in TokensOfKind("WEBSITE:")}) \ {None}

KnownPages == KnownLinks \cup KnownSites \cup ({c.profile_data.html_url : c \in Calls} \ {None})

ValidEmailTable == [e \in KnownEmails |-> _is_valid_email(e)]

PersonalSiteTable == [u \in KnownSites |-> _is_personal_site(u)]

SafeLinkTable == [l \in KnownLinks |-> [p \in KnownPages |-> _is_safe_drill_down_link(l, p)]]

ValidEmail(email) == ValidEmailTable[email]

PersonalSite(url) == PersonalSiteTable[url]

SafeLink(url, parent_url) == SafeLinkTable[url][parent_url]

(***************************************************************************)
(* ContactInfo and the pure parts of the extractor                         *)
(***************************************************************************)
\* ContactInfo()
NewContactInfo ==
    [emails |-> {}, social_links |-> <<>>, website |-> None, phone |-> None,
     linkedin |-> None, twitter |-> None, personal_site |-> None, contact_score |-> 0]

\* variant: a platform that has an entry keeps it
SetSocial_keep_first(ci, platform, url) ==
    [ci EXCEPT !.social_links = ci.social_links @@ (platform :> url)]

\* social_links[platform] = url
SetSocial(ci, platform, url) ==
    [ci EXCEPT !.social_links = (platform :> url) @@ ci.social_links]

\* variant: the candidates are added without validation
AddValidEmails_unchecked(emails, k, ci) ==
    [ci EXCEPT !.emails = @ \cup {emails[j] : j \in k..Len(emails)}]

RECURSIVE AddValidEmails(_, _, _)
\* for email in emails: if self._is_valid_email(email): contact_info.emails.add(email)
AddValidEmails(emails, k, ci) ==
    IF k > Len(emails) THEN ci
    ELSE AddValidEmails(emails, k + 1,
            IF ValidEmail(emails[k])
            THEN [ci EXCEPT !.emails = @ \cup {emails[k]}]
            ELSE ci)

\* if profile_data.get('email'): ...
BasicEmail(email, ci) ==
    IF Truthy(email) /\ ValidEmail(email) THEN [ci EXCEPT !.emails = @ \cup {email}] ELSE ci

\* blog_url = profile_data.get('blog') or profile_data.get('website'); if blog_url and ...
BasicSite(blog_url, ci) ==
    IF Truthy(blog_url) /\ _is_valid_url(blog_url)
    THEN [ci EXCEPT !.website = blog_url,
                    !.personal_site = IF PersonalSite(blog_url) THEN blog_url ELSE @]
    ELSE ci

\* if profile_data.get('twitter_username'): ...
BasicTwitter(twitter_username, ci) ==
    IF Truthy(twitter_username)
    THEN SetSocial([ci EXCEPT !.twitter = "https://twitter.com/" \o twitter_username],
                   "twitter", "https://twitter.com/" \o twitter_username)
    ELSE ci

_extract_basic_info(profile, ci) ==
    BasicTwitter(profile.twitter_username,
        BasicSite(IF Truthy(profile.blog) THEN profile.blog ELSE profile.website,
            BasicEmail(profile.email, ci)))

\* if matches: contact_info.social_links[platform] = url
TextSocial(platform, matches, ci) ==
    IF matches # <<>> THEN SetSocial(ci, platform, SocialUrl(platform, matches[1])) ELSE ci

RECURSIVE TextSocials(_, _, _)
\* the platform loop of _extract_from_text: social_links only
TextSocials(text, k, ci) ==
    IF k > Len(Platforms) THEN ci
    ELSE TextSocials(text, k + 1, TextSocial(Platforms[k], FindHandles(k, text), ci))

_extract_from_text(text, ci) == TextSocials(text, 1, AddValidEmails(FindEmails(text), 1, ci))

_extract_github_specific(github_user, ci) ==
    LET c1 == SetSocial(ci, "github", github_user.html_url)
    IN IF Truthy(github_user.bio) THEN _extract_from_text(github_user.bio, c1) ELSE c1

_identify_scraping_targets(profile, ci) ==
    (IF Truthy(ci.personal_site) THEN <<ci.personal_site>>
     ELSE IF Truthy(ci.website) THEN <<ci.website>>
     ELSE <<>>)
    \o (IF Truthy(profile.html_url) THEN <<profile.html_url>> ELSE <<>>)

\* if platform == 'linkedin': contact_info.linkedin = url; elif platform == 'twitter': ...
SetPlatformField(ci, platform, url) ==
    IF platform = "linkedin" THEN [ci EXCEPT !.linkedin = url]
    ELSE IF platform = "twitter" THEN [ci EXCEPT !.twitter = url]
    ELSE ci

\* variant: a platform without a match has its field emptied
RegexSocial_clears(platform, matches, ci) ==
    IF matches = <<>> THEN SetPlatformField(ci, platform, None)
    ELSE SetPlatformField(SetSocial(ci, platform, SocialUrl(platform, matches[1])),
                          platform, SocialUrl(platform, matches[1]))

\* if matches: social_links[platform] = url, and the field of the platform
RegexSocial(platform, matches, ci) ==
    IF matches = <<>> THEN ci
    ELSE SetPlatformField(SetSocial(ci, platform, SocialUrl(platform, matches[1])),
                          platform, SocialUrl(platform, matches[1]))

RECURSIVE RegexSocials(_, _, _)
\* the platform loop of _regex_extract: social_links and the linkedin/twitter fields
RegexSocials(content, k, ci) ==
    IF k > Len(Platforms) THEN ci
    ELSE RegexSocials(content, k + 1, RegexSocial(Platforms[k], FindHandles(k, content), ci))

_regex_extract(content, ci) == RegexSocials(content, 1, AddValidEmails(FindEmails(content), 1, ci))

\* scores are in hundredths: 100 stands for 1.0
ScoreUnit == 100

\* variant: any website counts as a personal site
WeightSum_any_website(ci) ==
    LET social_weight == 30 \div 3
    IN (IF ci.emails # {} THEN 40 ELSE 0)
       + (IF ci.emails # {} /\ Cardinality(ci.emails) > 1 THEN 10 ELSE 0)
       + (IF Truthy(ci.linkedin) THEN social_weight ELSE 0)
       + (IF Truthy(ci.twitter) THEN social_weight ELSE 0)
       + (IF Cardinality(DOMAIN ci.social_links) > 2 THEN social_weight ELSE 0)
       + (IF Truthy(ci.personal_site) \/ Truthy(ci.website) THEN 20 ELSE 0)
       + (IF Truthy(ci.phone) THEN 10 ELSE 0)

\* the value of `score` before the final min(score, 1.0)
WeightSum(ci) ==
    LET social_weight == 30 \div 3
    IN (IF ci.emails # {} THEN 40 ELSE 0)
       + (IF ci.emails # {} /\ Cardinality(ci.emails) > 1 THEN 10 ELSE 0)
       + (IF Truthy(ci.linkedin) THEN social_weight ELSE 0)
       + (IF Truthy(ci.twitter) THEN social_weight ELSE 0)
       + (IF Cardinality(DOMAIN ci.social_links) > 2 THEN social_weight ELSE 0)
       + (IF Truthy(ci.personal_site) THEN 20 ELSE 0)
       + (IF Truthy(ci.phone) THEN 10 ELSE 0)

\* variant: the sum is returned as it is
_calculate_contact_score_unclamped(ci) == WeightSum(ci)

_calculate_contact_score(ci) ==
    IF WeightSum(ci) < ScoreUnit THEN WeightSum(ci) ELSE ScoreUnit

(***************************************************************************)
(* State                                                                   *)
(***************************************************************************)
VARIABLES
    config,         \* settings.contact_extraction (ContactExtractionConfig)
    jina_token,     \* TRUE iff settings.api.jina_token is set
    openai_client,  \* TRUE iff the OpenAI client was initialised in __init__
    profile_data,   \* argument of extract_from_profile
    source_type,    \* argument of extract_from_profile
    extra_data,     \* argument of extract_from_profile
    pc,             \* position inside extract_from_profile
    contact_info,   \* the ContactInfo being filled
    urls_to_scrape, \* result of _identify_scraping_targets
    visited_urls,   \* the set created by _perform_multi_level_extraction
    stack,          \* pending iterations of the seed loop and of the link loops
    fetch_log,      \* one entry per call of _scrape_url, in call order
    attempts,       \* number of calls of _scrape_and_extract so far
    earlier         \* what the earlier calls of extract_from_profile returned and fetched

vars == <<config, jina_token, openai_client, profile_data, source_type, extra_data,
          pc, contact_info, urls_to_scrape, visited_urls, stack, fetch_log, attempts,
          earlier>>

inputs == <<config, jina_token, openai_client, profile_data, source_type, extra_data>>

(***************************************************************************)
(* Oracle responses, parsing and one call of _scrape_and_extract           *)
(***************************************************************************)
\* self.config.max_links_per_level.get(k, 2)
MaxLinksDefault == 2

\* variant: the budget of the page's own level is used for its links
MaxLinks_own_level(k) ==
    IF k - 1 \in DOMAIN config.max_links_per_level
    THEN config.max_links_per_level[k - 1]
    ELSE MaxLinksDefault

MaxLinks(k) ==
    IF k \in DOMAIN config.max_links_per_level
    THEN config.max_links_per_level[k]
    ELSE MaxLinksDefault

\* variant: a website found later replaces the one the record has
SetWebsite_overwrite(ci, v) ==
    [ci EXCEPT !.website = v,
               !.personal_site = IF PersonalSite(v) THEN v ELSE @]

\* if not contact_info.website: contact_info.website = website
\* if self._is_personal_site(website): contact_info.personal_site = website
SetWebsite(ci, v) ==
    [ci EXCEPT !.website = IF Truthy(@) THEN @ ELSE v,
               !.personal_site = IF PersonalSite(v) THEN v ELSE @]

\* the body of the line loop of _parse_llm_response, applied to one line
ParseLine(tok, st, depth, source_url) ==
    LET ci == st.ci
        v == tok.value
    IN IF tok.kind = "EMAILS:" THEN
           IF v # "" /\ v # "None"
           THEN [st EXCEPT !.ci = AddValidEmails(tok.parts, 1, ci)]
           ELSE st
       ELSE IF tok.kind = "LINKEDIN:" THEN
           IF v # "" /\ StartsWith(v, "http")
           THEN [st EXCEPT !.ci = SetSocial([ci EXCEPT !.linkedin = v], "linkedin", v)]
           ELSE st
       ELSE IF tok.kind = "TWITTER:" THEN
           IF v # "" /\ StartsWith(v, "http")
           THEN [st EXCEPT !.ci = SetSocial([ci EXCEPT !.twitter = v], "twitter", v)]
           ELSE st
       ELSE IF tok.kind = "PHONE:" THEN
           IF v # "" /\ v # "None"
           THEN [st EXCEPT !.ci.phone = v]
           ELSE st
       ELSE IF tok.kind = "WEBSITE:" THEN
           IF v # "" /\ StartsWith(v, "http")
           THEN [st EXCEPT !.ci = SetWebsite(ci, v)]
           ELSE st
       ELSE IF tok.kind = "NEXT_LINKS:" /\ depth < 2 THEN
           IF v # "" /\ v # "None"
           THEN [st EXCEPT !.next_links =
                    @ \o SelectSeq(tok.parts,
                                   LAMBDA link : StartsWith(link, "http") /\ SafeLink(link, source_url))]
           ELSE st
       ELSE st

RECURSIVE ParseLines(_, _, _, _, _)
ParseLines(toks, k, st, depth, source_url) ==
    IF k > Len(toks) THEN st
    ELSE ParseLines(toks, k + 1, ParseLine(toks[k], st, depth, source_url), depth, source_url)

\* variant: the last n of the accepted links are followed
Parsed_last(st, n) ==
    [ci |-> st.ci, next_links |-> st.next_links,
     links |-> SubSeq(st.next_links,
                      IF n < Len(st.next_links) THEN Len(st.next_links) - n + 1 ELSE 1,
                      Len(st.next_links))]

\* variant: one link more than the budget is followed
Parsed_one_more(st, n) ==
    [ci |-> st.ci, next_links |-> st.next_links, links |-> Take(st.next_links, n + 1)]

\* the parsed fields, the accepted links and the first n of them
Parsed(st, n) == [ci |-> st.ci, next_links |-> st.next_links, links |-> Take(st.next_links, n)]

\* variant: every accepted link is followed
_parse_llm_response_unbudgeted(response, ci, depth, source_url) ==
    Parsed(ParseLines(TokensOf(response), 1, [ci |-> ci, next_links |-> <<>>], depth, source_url),
           Len(TokensOf(response)) * Cardinality(KnownLinks))

\* Result: the updated ContactInfo and the links that the final loop passes, in
\* order, to _scrape_and_extract at depth + 1
_parse_llm_response(response, ci, depth, source_url) ==
    Parsed(ParseLines(TokensOf(response), 1, [ci |-> ci, next_links |-> <<>>], depth, source_url),
           MaxLinks(depth + 1))

\* variant: every page below the seeds gets the final prompt
PromptLevel_final_below_seeds(depth) == IF depth = 0 THEN 0 ELSE 2

\* which prompt _intelligent_extract builds
PromptLevel(depth) == IF depth = 0 THEN 0 ELSE IF depth = 1 THEN 1 ELSE 2

\* _create_level_0_prompt asks for fields and up to 4 links, _create_level_1_prompt
\* for fields and up to 3 links, _create_level_2_prompt for fields and no links
PromptNames == <<"level_0", "level_1", "level_2">>

\* the prompt sent for a page handled in the way `how`, None if none is sent
PromptSent(how, depth) ==
    IF how \in {"intelligent", "fallback"} THEN PromptNames[PromptLevel(depth) + 1] ELSE None

PromptCap == 4000

\* content[:4000] + "..." if len(content) > 4000 else content
PromptText(content) ==
    IF Len(content) > PromptCap THEN SubSeq(content, 1, PromptCap) \o "..." ELSE content

\* what a call returns: the record, the links to follow, and the path taken
Extracted(ci, links, how) == [ci |-> ci, links |-> links, how |-> how]

\* the result of _parse_llm_response, returned from the try block
Intelligent(r) == Extracted(r.ci, r.links, "intelligent")

_intelligent_extract(content, oracle, ci, depth, source_url) ==
    IF oracle = ApiError \/ oracle = None
    THEN \* except Exception: self._regex_extract(content, contact_info); return []
         Extracted(_regex_extract(PromptText(content), ci), <<>>, "fallback")
    ELSE Intelligent(_parse_llm_response(oracle, ci, depth, source_url))

OracleMinLen == 100

\* variant: the length of the page is not looked at
UsesOracle_any_length(content) == openai_client

\* TRUE iff _extract_from_content hands the page to _intelligent_extract
UsesOracle(content) == openai_client /\ Len(content) > OracleMinLen

\* variant: the regex path follows the LinkedIn profile it found
_extract_from_content_regex_links(content, oracle, ci, depth, source_url) ==
    IF UsesOracle(content)
    THEN _intelligent_extract(content, oracle, ci, depth, source_url)
    ELSE Extracted(_regex_extract(content, ci),
                   IF Truthy(_regex_extract(content, ci).linkedin)
                   THEN <<_regex_extract(content, ci).linkedin>>
                   ELSE <<>>,
                   "regex")

_extract_from_content(content, oracle, ci, depth, source_url) ==
    IF UsesOracle(content)
    THEN _intelligent_extract(content, oracle, ci, depth, source_url)
    ELSE Extracted(_regex_extract(content, ci), <<>>, "regex")

\* variant: requests.get is called without a token
NetworkCall_without_token == config.has_request_timeout

\* TRUE iff _scrape_url gets as far as calling requests.get: the token is set
\* and evaluating self.config.request_timeout does not raise AttributeError
NetworkCall == jina_token /\ config.has_request_timeout

\* Result: the text, or None
_scrape_url(url, http) ==
    IF ~jina_token THEN None
    ELSE IF ~config.has_request_timeout THEN None
    ELSE IF http.raises THEN None
    ELSE IF http.status = 200 THEN http.text
    ELSE None

\* variant: the protection checks the depth only
Protected_depth_only(url, depth, visited) == depth >= config.max_drilling_depth

\* variant: the protection checks the visited set only
Protected_visited_only(url, depth, visited) == url \in visited

\* variant: the depth check is off by one
Protected_depth_off_by_one(url, depth, visited) ==
    depth >= config.max_drilling_depth - 1 \/ url \in visited

\* variant: the depth check lets one more level through
Protected_depth_above(url, depth, visited) ==
    depth > config.max_drilling_depth \/ url \in visited

\* the depth and loop protection of _scrape_and_extract
Protected(url, depth, visited) == depth >= config.max_drilling_depth \/ url \in visited

\* the call returns at the protection, before the url is marked visited
Skipped(ci, visited) ==
    [visited |-> visited, ci |-> ci, links |-> <<>>, fetched |-> FALSE,
     content |-> None, how |-> "skipped", raised |-> FALSE]

\* variant: a fetch without content ends the call with an exception
Absent_exception(url, ci, visited, content, raised) ==
    [visited |-> visited \cup {url}, ci |-> ci, links |-> <<>>, fetched |-> TRUE,
     content |-> content, how |-> "absent", raised |-> TRUE]

\* `if content:` fails: nothing is extracted from the url, now visited
Absent(url, ci, visited, content, raised) ==
    [visited |-> visited \cup {url}, ci |-> ci, links |-> <<>>, fetched |-> TRUE,
     content |-> content, how |-> "absent", raised |-> raised]

\* variant: the score is brought up to date after every page
Fetched_scored(url, visited, content, r) ==
    [visited |-> visited \cup {url},
     ci |-> [r.ci EXCEPT !.contact_score = _calculate_contact_score(r.ci)],
     links |-> r.links, fetched |-> TRUE, content |-> content, how |-> r.how, raised |-> FALSE]

\* the page was read and r is what _extract_from_content made of it
Fetched(url, visited, content, r) ==
    [visited |-> visited \cup {url}, ci |-> r.ci, links |-> r.links, fetched |-> TRUE,
     content |-> content, how |-> r.how, raised |-> FALSE]

\* variant: a failure of requests.get leaves the call as an exception
_scrape_and_extract_http_escapes(url, ci, depth, visited, http, oracle) ==
    IF Protected(url, depth, visited) THEN Skipped(ci, visited)
    ELSE IF ~Truthy(_scrape_url(url, http))
    THEN Absent(url, ci, visited, _scrape_url(url, http), NetworkCall /\ http.raises)
    ELSE Fetched(url, visited, _scrape_url(url, http),
                 _extract_from_content(_scrape_url(url, http), oracle, ci, depth, url))

\* variant: a failure of the chat completion call leaves the call as an exception
_scrape_and_extract_oracle_escapes(url, ci, depth, visited, http, oracle) ==
    IF Protected(url, depth, visited) THEN Skipped(ci, visited)
    ELSE IF ~Truthy(_scrape_url(url, http))
    THEN Absent(url, ci, visited, _scrape_url(url, http), FALSE)
    ELSE IF UsesOracle(_scrape_url(url, http)) /\ oracle \in {ApiError, None}
    THEN [Absent(url, ci, visited, _scrape_url(url, http), TRUE) EXCEPT !.how = "fallback"]
    ELSE Fetched(url, visited, _scrape_url(url, http),
                 _extract_from_content(_scrape_url(url, http), oracle, ci, depth, url))

\* One call _scrape_and_extract(url, contact_info, depth, visited_urls), up to
\* the recursive calls, which are returned as `links` (to be made at depth + 1).
\* `raised` tells whether an exception leaves the call: the try/except blocks of
\* _scrape_url, _intelligent_extract, _extract_from_content and
\* _scrape_and_extract let none out
_scrape_and_extract(url, ci, depth, visited, http, oracle) ==
    IF Protected(url, depth, visited) THEN Skipped(ci, visited)
    ELSE IF ~Truthy(_scrape_url(url, http))
    THEN Absent(url, ci, visited, _scrape_url(url, http), FALSE)
    ELSE Fetched(url, visited, _scrape_url(url, http),
                 _extract_from_content(_scrape_url(url, http), oracle, ci, depth, url))

(***************************************************************************)
(* The state machine of extract_from_profile                               *)
(***************************************************************************)
Init ==
    /\ config \in Configs
    /\ jina_token \in BOOLEAN
    /\ openai_client \in BOOLEAN
    /\ \E c \in Calls :
         /\ profile_data = c.profile_data
         /\ source_type = c.source_type
         /\ extra_data = c.extra_data
    /\ pc = "start"
    /\ contact_info = NewContactInfo
    /\ urls_to_scrape = <<>>
    /\ visited_urls = {}
    /\ stack = <<>>
    /\ fetch_log = <<>>
    /\ attempts = 0
    /\ earlier = <<>>

\* self._extract_basic_info(profile_data, contact_info)
ExtractBasicInfo ==
    /\ pc = "start"
    /\ contact_info' = _extract_basic_info(profile_data, contact_info)
    /\ pc' = "source"
    /\ UNCHANGED <<inputs, earlier, urls_to_scrape, visited_urls, stack, fetch_log, attempts>>

\* if source_type == 'github' and extra_data: self._extract_github_specific(...)
ExtractGithubSpecific ==
    /\ pc = "source"
    /\ contact_info' = IF source_type = "github" /\ ~extra_data.is_none
                       THEN _extract_github_specific(extra_data, contact_info)
                       ELSE contact_info
    /\ pc' = "targets"
    /\ UNCHANGED <<inputs, earlier, urls_to_scrape, visited_urls, stack, fetch_log, attempts>>

RECURSIVE Unwind(_)
\* loops whose lists are exhausted return to their callers
Unwind(st) ==
    IF st # <<>> /\ st[Len(st)].links = <<>> THEN Unwind(SubSeq(st, 1, Len(st) - 1)) ELSE st

\* variant: the visited set belongs to the extractor and outlives the call
IdentifyScrapingTargets_shared_visited ==
    /\ pc = "targets"
    /\ urls_to_scrape' = _identify_scraping_targets(profile_data, contact_info)
    /\ stack' = Unwind(<<[links |-> urls_to_scrape', depth |-> 0, parent |-> None]>>)
    /\ pc' = IF stack' = <<>> THEN "score" ELSE "crawl"
    /\ UNCHANGED <<inputs, earlier, contact_info, visited_urls, fetch_log, attempts>>

\* variant: the seed loop starts with the profile page
IdentifyScrapingTargets_profile_first ==
    /\ pc = "targets"
    /\ urls_to_scrape' = (IF Truthy(profile_data.html_url) THEN <<profile_data.html_url>> ELSE <<>>)
                         \o (IF Truthy(contact_info.personal_site) THEN <<contact_info.personal_site>>
                             ELSE IF Truthy(contact_info.website) THEN <<contact_info.website>>
                             ELSE <<>>)
    /\ visited_urls' = {}
    /\ stack' = Unwind(<<[links |-> urls_to_scrape', depth |-> 0, parent |-> None]>>)
    /\ pc' = IF stack' = <<>> THEN "score" ELSE "crawl"
    /\ UNCHANGED <<inputs, earlier, contact_info, fetch_log, attempts>>

\* urls_to_scrape = self._identify_scraping_targets(...); if urls_to_scrape:
\* _perform_multi_level_extraction creates the visited set and starts the seed loop
IdentifyScrapingTargets ==
    /\ pc = "targets"
    /\ urls_to_scrape' = _identify_scraping_targets(profile_data, contact_info)
    /\ visited_urls' = {}
    /\ stack' = Unwind(<<[links |-> urls_to_scrape', depth |-> 0, parent |-> None]>>)
    /\ pc' = IF stack' = <<>> THEN "score" ELSE "crawl"
    /\ UNCHANGED <<inputs, earlier, contact_info, fetch_log, attempts>>

\* the loop on top of the stack and the link it is about to process
Top == stack[Len(stack)]

NextUrl == Head(Top.links)

\* variant: the links are processed two levels deeper
Advance_two_levels(links, parent) ==
    Unwind(SubSeq(stack, 1, Len(stack) - 1)
           \o <<[Top EXCEPT !.links = Tail(@)]>>
           \o <<[links |-> links, depth |-> Top.depth + 2, parent |-> parent]>>)

\* the stack after the current link of the top loop is done and `links` are to
\* be processed one level deeper, from the page `parent`
Advance(links, parent) ==
    Unwind(SubSeq(stack, 1, Len(stack) - 1)
           \o <<[Top EXCEPT !.links = Tail(@)]>>
           \o <<[links |-> links, depth |-> Top.depth + 1, parent |-> parent]>>)

\* the seed loop of _perform_multi_level_extraction meets a seed that is already visited
SeedAlreadyVisited ==
    /\ pc = "crawl"
    /\ Top.depth = 0
    /\ NextUrl \in visited_urls
    /\ stack' = Advance(<<>>, NextUrl)
    /\ pc' = IF stack' = <<>> THEN "score" ELSE "crawl"
    /\ UNCHANGED <<inputs, earlier, contact_info, urls_to_scrape, visited_urls, fetch_log, attempts>>

NoHttp == [raises |-> TRUE, status |-> 0, text |-> ""]

\* requests.get is reached only past the protection and with NetworkCall
HttpChoices ==
    IF ~Protected(NextUrl, Top.depth, visited_urls) /\ NetworkCall THEN HttpOutcomes ELSE {NoHttp}

\* the chat completion call is reached only for a page that UsesOracle
OracleChoices(http) ==
    LET content == _scrape_url(NextUrl, http)
    IN IF ~Protected(NextUrl, Top.depth, visited_urls) /\ Truthy(content) /\ UsesOracle(content)
       THEN OracleOutcomes
       ELSE {None}

\* one call of _scrape_and_extract, made by the seed loop or by the link loop
\* of _parse_llm_response
ScrapeAndExtract ==
    /\ pc = "crawl"
    /\ Top.depth = 0 => NextUrl \notin visited_urls
    /\ \E http \in HttpChoices :
         \E oracle \in OracleChoices(http) :
           \E r \in {_scrape_and_extract(NextUrl, contact_info, Top.depth, visited_urls, http, oracle)} :
              /\ visited_urls' = r.visited
              /\ contact_info' = r.ci
              /\ attempts' = attempts + 1
              /\ fetch_log' = IF r.fetched
                              THEN Append(fetch_log,
                                     [url |-> NextUrl, depth |-> Top.depth, parent |-> Top.parent,
                                      network |-> NetworkCall, content |-> r.content,
                                      how |-> r.how, oracle |-> oracle,
                                      prompt |-> PromptSent(r.how, Top.depth)])
                              ELSE fetch_log
              /\ stack' = IF r.raised THEN <<>> ELSE Advance(r.links, NextUrl)
              /\ pc' = IF r.raised THEN "raised" ELSE IF stack' = <<>> THEN "score" ELSE "crawl"
    /\ UNCHANGED <<inputs, earlier, urls_to_scrape>>

\* contact_info.contact_score = self._calculate_contact_score(contact_info); return
CalculateContactScore ==
    /\ pc = "score"
    /\ contact_info' = [contact_info EXCEPT !.contact_score = _calculate_contact_score(contact_info)]
    /\ pc' = "returned"
    /\ UNCHANGED <<inputs, earlier, urls_to_scrape, visited_urls, stack, fetch_log, attempts>>

Next ==
    \/ ExtractBasicInfo
    \/ ExtractGithubSpecific
    \/ IdentifyScrapingTargets
    \/ SeedAlreadyVisited
    \/ ScrapeAndExtract
    \/ CalculateContactScore

Spec == Init /\ [][Next]_vars

\* the caller keeps the extractor and calls extract_from_profile again, with the
\* same profile: contact_info = ContactInfo() starts a new record; the visited
\* set of the call that returned is left to IdentifyScrapingTargets
NextCall ==
    /\ pc = "returned"
    /\ earlier = <<>>
    /\ earlier' = <<[info |-> contact_info, log |-> fetch_log]>>
    /\ pc' = "start"
    /\ contact_info' = NewContactInfo
    /\ urls_to_scrape' = <<>>
    /\ stack' = <<>>
    /\ fetch_log' = <<>>
    /\ attempts' = 0
    /\ UNCHANGED <<inputs, visited_urls>>

\* an extractor without OpenAI client
InitRegex == Init /\ ~openai_client

NextTwice == Next \/ NextCall

\* two calls in a row on an extractor that uses the regex path
TwiceSpec == InitRegex /\ [][NextTwice]_vars

\* the social_links dictionaries with 0 to 3 platforms
SomeSocialLinks ==
    {<<>>,
     "github" :> ProfileUrl,
     ("github" :> ProfileUrl) @@ ("twitter" :> "https://twitter.com/janedoe"),
     ("github" :> ProfileUrl) @@ ("twitter" :> "https://twitter.com/janedoe")
        @@ ("linkedin" :> "https://linkedin.com/in/janedoe")}

\* ContactInfo objects handed to the scorer: every combination of empty and
\* filled fields, with 0, 1 and 2 emails and 0 to 3 social links
SomeContactInfos ==
    [emails : SUBSET {"jane@company.com", "jd@uni.edu"},
     social_links : SomeSocialLinks,
     website : {None, CompanyUrl},
     phone : {None, "+61 400 000 000"},
     linkedin : {None, "https://linkedin.com/in/janedoe"},
     twitter : {None, "https://twitter.com/janedoe"},
     personal_site : {None, SiteUrl},
     contact_score : {0}]

\* extract_from_profile has reached the call of the scorer with some record
InitScore ==
    /\ config \in Configs
    /\ config.max_drilling_depth = DefaultDepth
    /\ config.max_links_per_level = DefaultLinksPerLevel
    /\ config.has_request_timeout
    /\ jina_token = TRUE
    /\ openai_client = TRUE
    /\ \E c \in Calls :
         /\ c.profile_data.email = None /\ c.profile_data.blog = None
         /\ profile_data = c.profile_data
         /\ source_type = c.source_type
         /\ extra_data = c.extra_data
    /\ pc = "score"
    /\ contact_info \in SomeContactInfos
    /\ urls_to_scrape = <<>>
    /\ visited_urls = {}
    /\ stack = <<>>
    /\ fetch_log = <<>>
    /\ attempts = 0
    /\ earlier = <<>>

\* the scorer applied to each of these records
ScoreSpec == InitScore /\ [][CalculateContactScore]_vars

\* _regex_extract is about to be called with some text and some record
InitRegexText ==
    /\ config \in Configs
    /\ config.max_drilling_depth = DefaultDepth
    /\ config.max_links_per_level = DefaultLinksPerLevel
    /\ config.has_request_timeout
    /\ jina_token = TRUE
    /\ openai_client = FALSE
    /\ \E c \in Calls :
         /\ c.profile_data.email = None /\ c.profile_data.blog = None
         /\ profile_data = c.profile_data
         /\ source_type = c.source_type
         /\ extra_data = c.extra_data
    /\ pc = "regex"
    /\ contact_info \in SomeContactInfos
    /\ urls_to_scrape = <<SiteUrl>>
    /\ visited_urls = {SiteUrl}
    /\ stack = <<>>
    /\ \E text \in RegexTexts :
         fetch_log = <<[url |-> SiteUrl, depth |-> 0, parent |-> None, network |-> TRUE,
                        content |-> text, how |-> "regex", oracle |-> None, prompt |-> None]>>
    /\ attempts = 1
    /\ earlier = <<>>

\* self._regex_extract(content, contact_info)
RegexExtract ==
    /\ pc = "regex"
    /\ contact_info' = _regex_extract(fetch_log[1].content, contact_info)
    /\ pc' = "extracted"
    /\ UNCHANGED <<inputs, earlier, urls_to_scrape, visited_urls, stack, fetch_log, attempts>>

\* the regex extractor applied to each of these texts and records
RegexSpec == InitRegexText /\ [][RegexExtract]_vars

\* crawls for the profiles with a blog, under the tight link budgets, with weak
\* fairness: extract_from_profile is sequential code, so a step that can be
\* taken is taken
InitTight ==
    /\ Init
    /\ config.max_links_per_level = TightLinksPerLevel
    /\ Truthy(profile_data.blog)

FairSpec == InitTight /\ [][Next]_vars /\ WF_vars(Next)

(***************************************************************************)
(* Claims                                                                  *)
(***************************************************************************)
Depth == config.max_drilling_depth

LogIndex == 1..Len(fetch_log)

\* the urls fetched from the page fetch_log[i], in fetch order
Kids(i) ==
    LET es == SelectSeq(fetch_log, LAMBDA e : e.parent = fetch_log[i].url
                                              /\ e.depth = fetch_log[i].depth + 1)
    IN [k \in 1..Len(es) |-> es[k].url]

\* the entries of all NEXT_LINKS lines of a response, before any filtering
ListedLinks(response) ==
    IF response \in Responses
    THEN LET toks == SelectSeq(TokensOf(response),
                               LAMBDA t : t.kind = "NEXT_LINKS:" /\ t.value # "" /\ t.value # "None")
         IN IF toks = <<>> THEN <<>> ELSE toks[1].parts
    ELSE <<>>

\* the links of the page fetch_log[i] that pass the Link Policy, in input order
AcceptedLinks(i) ==
    _parse_llm_response(fetch_log[i].oracle, NewContactInfo,
                        fetch_log[i].depth, fetch_log[i].url).next_links

RECURSIVE Fresh(_, _)
\* seq without the urls in seen and without repetitions
Fresh(seq, seen) ==
    IF seq = <<>> THEN <<>>
    ELSE IF Head(seq) \in seen THEN Fresh(Tail(seq), seen)
    ELSE <<Head(seq)>> \o Fresh(Tail(seq), seen \cup {Head(seq)})

RECURSIVE LevelSum(_)
\* sum of max_links_per_level[d] for d in 0..n
LevelSum(n) == IF n < 0 THEN 0 ELSE MaxLinks(n) + LevelSum(n - 1)

\* C1 as stated: the visited set never holds more than
\* 1 + sum of max_links_per_level[d], d in 0..max_drilling_depth-1, urls.
C1_VisitedWithinLevelSum == Cardinality(visited_urls) <= 1 + LevelSum(Depth - 1)

\* pages one seed can lead to: the seed, max_links_per_level[1] pages at depth 1
\* and, from each of those, max_links_per_level[2] pages at depth 2
TreeSize ==
    1 + (IF Depth >= 2 THEN MaxLinks(1) ELSE 0)
      + (IF Depth >= 3 THEN MaxLinks(1) * MaxLinks(2) ELSE 0)

\* C1 amended: the visited set never holds more than (number of seeds) *
\* (1 + L1 + L1*L2) urls, L1 and L2 being the budgets of levels 1 and 2, the
\* terms for levels at or beyond max_drilling_depth left out.
C1_VisitedWithinTree == Cardinality(visited_urls) <= Len(urls_to_scrape) * TreeSize

C1_Witness ==
    /\ pc = "returned"
    /\ Len(urls_to_scrape) = 2
    /\ Depth >= 2
    /\ Cardinality(visited_urls) = 2 * TreeSize

\* C2: within one crawl no url is handed to the content fetcher twice.
C2_FetchedAtMostOnce ==
    \A i \in LogIndex : \A j \in LogIndex : i # j => fetch_log[i].url # fetch_log[j].url

\* the personal site lists itself and the profile page, a later seed, among its links
C2_Witness ==
    /\ pc = "returned"
    /\ Depth >= 2
    /\ 1 \in DOMAIN config.max_links_per_level /\ config.max_links_per_level[1] = 3
    /\ \E i \in LogIndex : \E j \in LogIndex :
         /\ fetch_log[i].url = SiteUrl /\ fetch_log[i].how = "intelligent"
         /\ fetch_log[i].oracle = BackLinksResponse
         /\ fetch_log[j].url = ProfileUrl /\ fetch_log[j].depth = 1
    /\ attempts > Len(fetch_log)

\* C3: every crawl ends and extract_from_profile returns.
C3_Terminates == <>(pc = "returned")

\* a finished crawl that met a link to a page already visited
C3_Witness ==
    /\ pc = "returned"
    /\ config.max_links_per_level = TightLinksPerLevel
    /\ Len(fetch_log) >= 3
    /\ attempts > Len(fetch_log)

\* TRUE iff the oracle raised or answered without usable text on fetch_log[i]
OracleFailed(i) ==
    \/ fetch_log[i].how = "fallback"
    \/ fetch_log[i].how = "intelligent" /\ fetch_log[i].oracle = ProseResponse

\* C4: whatever the oracle does, no exception leaves extract_from_profile, the
\* returned record has its score computed, and every seed and every link within
\* budget and depth of every expanded page has been processed.
C4_DegradeNotFail ==
    /\ pc # "raised"
    /\ pc = "returned" =>
         /\ contact_info.contact_score = _calculate_contact_score(contact_info)
         /\ Range(urls_to_scrape) \subseteq visited_urls
         /\ \A i \in LogIndex :
              fetch_log[i].how = "intelligent" /\ fetch_log[i].depth + 1 < Depth
                => Range(Take(AcceptedLinks(i), MaxLinks(fetch_log[i].depth + 1)))
                     \subseteq visited_urls

\* the oracle fails on a page at depth 1; a sibling and the next seed are fetched after it
C4_Witness ==
    /\ pc = "returned"
    /\ \E i \in LogIndex : \E j \in LogIndex : \E k \in LogIndex :
         /\ i < j /\ j < k
         /\ fetch_log[i].depth = 1 /\ OracleFailed(i)
         /\ fetch_log[j].depth = 1 /\ fetch_log[j].parent = fetch_log[i].parent
         /\ fetch_log[k].depth = 0

\* C5: every fetch happens at a depth d with 0 <= d < max_drilling_depth.
C5_FetchDepthBelowLimit ==
    \A i \in LogIndex : fetch_log[i].depth >= 0 /\ fetch_log[i].depth < Depth

\* the oracle lists links on a page of the deepest level
C5_Witness ==
    /\ pc = "returned"
    /\ \E i \in LogIndex :
         /\ fetch_log[i].depth = Depth - 1
         /\ fetch_log[i].how = "intelligent"
         /\ fetch_log[i].oracle = FiveLinksResponse

\* the case of C6: depth limit 2, three links for level 1, and a page at depth 0
\* whose response lists five candidates, all different and all accepted by the
\* Link Policy
C6_Case(i) ==
    /\ Depth = 2
    /\ 1 \in DOMAIN config.max_links_per_level /\ config.max_links_per_level[1] = 3
    /\ fetch_log[i].depth = 0
    /\ fetch_log[i].how = "intelligent"
    /\ Len(ListedLinks(fetch_log[i].oracle)) = 5
    /\ AcceptedLinks(i) = ListedLinks(fetch_log[i].oracle)
    /\ Cardinality(Range(AcceptedLinks(i))) = 5

\* C6 as stated: exactly 3 of the 5 are fetched at depth 1, the first 3 of the
\* filtered order, and nothing is fetched at depth 2.
C6_ExactlyThreeFetched ==
    pc = "returned" =>
      \A i \in LogIndex :
        C6_Case(i) =>
          /\ Len(Kids(i)) = 3
          /\ Kids(i) = Take(AcceptedLinks(i), 3)
          /\ \A j \in LogIndex : fetch_log[j].depth < 2

\* C6 amended: the pages fetched at depth 1 are the first 3 of the filtered
\* order less those already visited and less repetitions (so at most 3, and
\* exactly 3 when those three are distinct and unvisited), in that order, and
\* nothing is fetched at depth 2.
C6_FirstThreeUnvisitedFetched ==
    pc = "returned" =>
      \A i \in LogIndex :
        C6_Case(i) =>
          /\ Len(Kids(i)) <= 3
          /\ Kids(i) = Fresh(Take(AcceptedLinks(i), 3), {fetch_log[j].url : j \in 1..i})
          /\ \A j \in LogIndex : fetch_log[j].depth < 2

\* three of five are fetched, and one of them answers with links of its own
C6_Witness ==
    /\ pc = "returned"
    /\ \E i \in LogIndex :
         /\ C6_Case(i)
         /\ Len(Kids(i)) = 3
         /\ \E j \in LogIndex :
              /\ fetch_log[j].parent = fetch_log[i].url
              /\ fetch_log[j].how = "intelligent"
              /\ fetch_log[j].oracle = FiveLinksResponse

\* the record after basic and source-specific extraction
ProfileOnlyInfo ==
    LET c0 == _extract_basic_info(profile_data, NewContactInfo)
    IN IF source_type = "github" /\ ~extra_data.is_none
       THEN _extract_github_specific(extra_data, c0)
       ELSE c0

\* the case of C7: no website or blog, a profile page, and no candidate link
\* from any page at depth 0
C7_Case ==
    /\ ~Truthy(profile_data.blog) /\ ~Truthy(profile_data.website)
    /\ Truthy(profile_data.html_url)
    /\ \A i \in LogIndex :
         fetch_log[i].depth = 0 =>
           fetch_log[i].how # "intelligent" \/ ListedLinks(fetch_log[i].oracle) = <<>>

\* C7: in that case the crawl makes exactly one fetch, of the profile page, and
\* the returned record is what the profile and that page give, scored.
C7_SingleFetch ==
    pc = "returned" /\ C7_Case =>
      /\ Len(fetch_log) = 1
      /\ fetch_log[1].url = profile_data.html_url
      /\ LET e == fetch_log[1]
             c1 == IF e.how = "absent" THEN ProfileOnlyInfo
                   ELSE _extract_from_content(e.content, e.oracle, ProfileOnlyInfo, 0, e.url).ci
         IN contact_info = [c1 EXCEPT !.contact_score = _calculate_contact_score(c1)]

C7_Witness ==
    /\ pc = "returned"
    /\ C7_Case
    /\ Len(fetch_log) = 1
    /\ fetch_log[1].how = "intelligent"
    /\ fetch_log[1].oracle = NoLinksResponse

\* C8: without the intelligent oracle only seeds are fetched, at depth 0.
C8_RegexNeverDrills ==
    ~openai_client =>
      \A i \in LogIndex :
        /\ fetch_log[i].depth = 0
        /\ fetch_log[i].url \in Range(urls_to_scrape)
        /\ fetch_log[i].how \in {"regex", "absent"}

\* the regex extractor has read a page that holds urls
C8_Witness ==
    /\ pc = "returned"
    /\ ~openai_client
    /\ Depth >= 2
    /\ \E i \in LogIndex : fetch_log[i].how = "regex" /\ fetch_log[i].content = LongPage

\* C9: contact_score is in [0,1] in every state, the returned one included.
C9_ScoreInUnitInterval ==
    contact_info.contact_score >= 0 /\ contact_info.contact_score <= ScoreUnit

\* the weights of the returned record add up to more than 1
C9_Witness ==
    /\ pc = "returned"
    /\ WeightSum(contact_info) > ScoreUnit
    /\ contact_info.contact_score = ScoreUnit

\* C10: every email of the record passes _is_valid_email, whichever path added
\* it; a text with only git@github.com and noreply@github.com adds none; and a
\* rejected email does not take the other fields of its page with it.
C10_EmailsAllValid ==
    /\ \A e \in contact_info.emails : _is_valid_email(e)
    /\ (pc = "targets" /\ ~Truthy(profile_data.email)
          /\ extra_data.bio = "git@github.com noreply@github.com")
         => contact_info.emails = {}
    /\ \A i \in LogIndex :
         fetch_log[i].how = "intelligent" /\ fetch_log[i].oracle = FiveLinksResponse
           => /\ {"jane@company.com", "j.doe@uni.edu"} \subseteq contact_info.emails
              /\ "noreply@github.com" \notin contact_info.emails
              /\ Truthy(contact_info.linkedin)
              /\ Truthy(contact_info.phone)

\* emails came in from the profile field, the bio, a regex-read page and the oracle
C10_Witness ==
    /\ pc = "returned"
    /\ {"jane@company.com", "jd@uni.edu", "bob@corp.io", "j.doe@uni.edu"} \subseteq contact_info.emails
    /\ \E i \in LogIndex : fetch_log[i].oracle = FiveLinksResponse /\ fetch_log[i].how = "intelligent"

\* the urls of a fetch log, in fetch order
UrlsOf(log) == [k \in DOMAIN log |-> log[k].url]

\* the fetcher gave this call the same content as the earlier call, url by url
SameContent ==
    \A i \in DOMAIN fetch_log : \A j \in DOMAIN earlier[1].log :
      fetch_log[i].url = earlier[1].log[j].url => fetch_log[i].content = earlier[1].log[j].content

\* C11: with the regex path and a fetcher that answers as before, the second
\* call returns the record of the first call and fetches the same urls in the
\* same order.
C11_SecondCallEqual ==
    (pc = "returned" /\ earlier # <<>> /\ ~openai_client /\ SameContent) =>
      /\ contact_info = earlier[1].info
      /\ UrlsOf(fetch_log) = UrlsOf(earlier[1].log)

\* both calls read two pages and took fields from them
C11_Witness ==
    /\ pc = "returned" /\ earlier # <<>> /\ ~openai_client /\ SameContent
    /\ Len(fetch_log) = 2
    /\ fetch_log[1].content = ShortPage /\ fetch_log[2].content = LongPage
    /\ "bob@corp.io" \in contact_info.emails

\* 1 if the condition holds, 0 if not
Indicator(b) == IF b THEN 1 ELSE 0

\* the score of C12 in hundredths: min(1, 0.4*[emails] + 0.1*[more than one
\* email] + 0.1*[linkedin] + 0.1*[twitter] + 0.1*[more than two social_links]
\* + 0.2*[personal_site] + 0.1*[phone])
StatedScore(ci) ==
    LET sum == 40 * Indicator(ci.emails # {})
               + 10 * Indicator(Cardinality(ci.emails) > 1)
               + 10 * Indicator(Truthy(ci.linkedin))
               + 10 * Indicator(Truthy(ci.twitter))
               + 10 * Indicator(Cardinality(DOMAIN ci.social_links) > 2)
               + 20 * Indicator(Truthy(ci.personal_site))
               + 10 * Indicator(Truthy(ci.phone))
    IN IF sum > 100 THEN 100 ELSE sum

\* C12: the score the scorer returns is the stated weighted sum, clamped to 1,
\* of the record it was given; records that differ in the website only get the
\* same score.
C12_ScoreIsWeightedSum ==
    pc = "returned" =>
      /\ contact_info.contact_score = StatedScore(contact_info)
      /\ contact_info.contact_score =
           _calculate_contact_score([contact_info EXCEPT !.website = None])

\* a record with a website that is no personal site, two emails and a phone
C12_Witness ==
    /\ pc = "returned"
    /\ contact_info.website = CompanyUrl /\ contact_info.personal_site = None
    /\ Cardinality(contact_info.emails) = 2 /\ Truthy(contact_info.phone)
    /\ Cardinality(DOMAIN contact_info.social_links) = 2
    /\ contact_info.contact_score = 60

\* C13: contact_score is 0 until extract_from_profile returns; the only step
\* that may change it is the one from "score" to "returned", taken when no
\* fetch is pending, and it sets it to the scorer's value for the record as
\* it is then.
C13_ScoredOnceAtTheEnd ==
    /\ [](pc # "returned" => contact_info.contact_score = 0)
    /\ [][/\ contact_info'.contact_score # contact_info.contact_score
              => pc = "score" /\ pc' = "returned" /\ stack = <<>>
          /\ pc' = "returned"
              => /\ contact_info'.contact_score = _calculate_contact_score(contact_info)
                 /\ contact_info' = [contact_info EXCEPT !.contact_score = contact_info'.contact_score]]_vars

\* a scored record whose fields came from the profile and from three pages
C13_Witness ==
    /\ pc = "returned"
    /\ Len(fetch_log) >= 3
    /\ Truthy(contact_info.phone)
    /\ contact_info.contact_score = ScoreUnit

\* C14: without a token no fetch makes a network call or yields content, no
\* exception leaves the call, and the record holds what the profile data give
\* and nothing else, scored at the end.
C14_NoTokenProfileOnly ==
    ~jina_token =>
      /\ pc # "raised"
      /\ \A i \in LogIndex :
           ~fetch_log[i].network /\ fetch_log[i].content = None /\ fetch_log[i].how = "absent"
      /\ pc \in {"targets", "crawl", "score"} => contact_info = ProfileOnlyInfo
      /\ pc = "returned" =>
           contact_info = [ProfileOnlyInfo EXCEPT
                             !.contact_score = _calculate_contact_score(ProfileOnlyInfo)]

\* two seeds were tried without a token, on an extractor with an OpenAI client
C14_Witness ==
    /\ ~jina_token /\ openai_client
    /\ pc = "returned"
    /\ Len(fetch_log) = 2
    /\ {"jane@company.com", "jd@uni.edu"} \subseteq contact_info.emails
    /\ Truthy(contact_info.twitter)

\* C15: a fetch without content runs no extractor on the url, follows no link
\* from it and raises nothing; the step leaves the record as it was and goes on
\* with the rest of the loop that the url came from.
C15_AbsentLeavesNoTrace ==
    /\ [](/\ pc # "raised"
          /\ \A i \in LogIndex :
               ~Truthy(fetch_log[i].content) => fetch_log[i].how = "absent" /\ Kids(i) = <<>>)
    /\ [][(Len(fetch_log') > Len(fetch_log) /\ ~Truthy(fetch_log'[Len(fetch_log')].content))
            => /\ contact_info' = contact_info
               /\ stack' = Unwind(SubSeq(stack, 1, Len(stack) - 1)
                                  \o <<[Top EXCEPT !.links = Tail(@)]>>)
               /\ pc' = IF stack' = <<>> THEN "score" ELSE "crawl"]_vars

\* a network fetch at depth 1 gave nothing; its sibling and the next seed were
\* read after it
C15_Witness ==
    /\ pc = "returned"
    /\ \E i \in LogIndex : \E j \in LogIndex : \E k \in LogIndex :
         /\ i < j /\ j < k
         /\ fetch_log[i].depth = 1 /\ fetch_log[i].network /\ fetch_log[i].content = None
         /\ fetch_log[j].depth = 1 /\ fetch_log[j].parent = fetch_log[i].parent
         /\ fetch_log[j].content = LongPage
         /\ fetch_log[k].depth = 0 /\ fetch_log[k].content = ShortPage

\* C16 as stated: when the chat completion call fails, or its answer has none
\* of the expected lines, the step merges into the record what the regex
\* extractor finds in the page, and follows no link from it.
C16_FallbackOnFailure ==
    [][(/\ Len(fetch_log') > Len(fetch_log)
        /\ \/ fetch_log'[Len(fetch_log')].how = "fallback"
           \/ /\ fetch_log'[Len(fetch_log')].how = "intelligent"
              /\ fetch_log'[Len(fetch_log')].oracle = ProseResponse)
         => /\ contact_info' = _regex_extract(fetch_log'[Len(fetch_log')].content, contact_info)
            /\ stack' = Unwind(SubSeq(stack, 1, Len(stack) - 1)
                               \o <<[Top EXCEPT !.links = Tail(@)]>>)]_vars

\* the Optional[str] fields of ContactInfo
SingletonFields == {"website", "personal_site", "phone", "linkedin", "twitter"}

\* C17: no step of an extraction removes an email or a social_links key or
\* empties a singleton field that had a value.
C17_NothingDeleted ==
    [][/\ contact_info.emails \subseteq contact_info'.emails
       /\ DOMAIN contact_info.social_links \subseteq DOMAIN contact_info'.social_links
       /\ \A f \in SingletonFields : Truthy(contact_info[f]) => Truthy(contact_info'[f])]_vars

\* the twitter url of the profile was replaced by the one an oracle response
\* gave, and a response with `PHONE: None` came after one with a phone number
C17_Witness ==
    /\ pc = "returned"
    /\ Truthy(profile_data.twitter_username)
    /\ contact_info.twitter = "https://x.com/jd"
    /\ Truthy(contact_info.phone)
    /\ \E i \in LogIndex : \E j \in LogIndex :
         /\ i < j
         /\ fetch_log[i].how = "intelligent" /\ fetch_log[i].oracle = FiveLinksResponse
         /\ fetch_log[j].how = "intelligent" /\ fetch_log[j].oracle = MixedLinksResponse

\* what the regex extractor is said to find in each text: the emails that pass
\* the filter, and per matched platform the canonical url of the first handle
StatedFindings ==
    (RoundTripText :> [emails |-> {"jane@company.com"},
                       links |-> "linkedin" :> "https://linkedin.com/in/janedoe"])
    @@ (MixedCaseText :> [emails |-> {"Jane.Doe@Company.COM"},
                          links |-> ("linkedin" :> "https://linkedin.com/in/Jane-Doe")
                                    @@ ("twitter" :> "https://twitter.com/jane_d")])
    @@ (RepeatedText :> [emails |-> {},
                         links |-> ("twitter" :> "https://twitter.com/first")
                                   @@ ("github" :> "https://github.com/janedoe")])
    @@ (DottedHandleText :> [emails |-> {},
                             links |-> "linkedin" :> "https://linkedin.com/in/jane"])
    @@ (PlainText :> [emails |-> {}, links |-> <<>>])

\* C18: the regex extractor adds the valid emails of the text and sets, for
\* each platform with a match, social_links[platform] (and the linkedin or
\* twitter field) to the canonical url of the first match; the rest of the
\* record stays.
C18_RegexRoundTrip ==
    [][pc = "regex" /\ pc' = "extracted" =>
         LET found == StatedFindings[fetch_log[1].content]
         IN /\ contact_info'.emails = contact_info.emails \cup found.emails
            /\ contact_info'.social_links = found.links @@ contact_info.social_links
            /\ contact_info'.linkedin = IF "linkedin" \in DOMAIN found.links
                                        THEN found.links["linkedin"] ELSE contact_info.linkedin
            /\ contact_info'.twitter = IF "twitter" \in DOMAIN found.links
                                       THEN found.links["twitter"] ELSE contact_info.twitter
            /\ \A f \in {"website", "personal_site", "phone", "contact_score"} :
                 contact_info'[f] = contact_info[f]]_vars

\* the text of the claim, read into an empty record
C18_Witness ==
    /\ pc = "extracted"
    /\ fetch_log[1].content = RoundTripText
    /\ contact_info = [NewContactInfo EXCEPT
                         !.emails = {"jane@company.com"},
                         !.social_links = "linkedin" :> "https://linkedin.com/in/janedoe",
                         !.linkedin = "https://linkedin.com/in/janedoe"]

\* the links of the page fetch_log[i] that pass the Link Policy, whatever the
\* level of the page
PolicyAccepted(i) ==
    _parse_llm_response(fetch_log[i].oracle, NewContactInfo, 0, fetch_log[i].url).next_links

\* the first of them, as many as the budget of the next level allows
WithinBudget(i) == Take(PolicyAccepted(i), MaxLinks(fetch_log[i].depth + 1))

\* the urls visited when the links of the page fetch_log[i] are looked at
SeenBy(i) == {fetch_log[j].url : j \in 1..i}

\* the oracle returned, for the page fetch_log[i], an accepted link within
\* the budget that is not visited yet
C19_Case(i) ==
    /\ fetch_log[i].how = "intelligent"
    /\ \E k \in DOMAIN WithinBudget(i) : WithinBudget(i)[k] \notin SeenBy(i)

\* C19 as stated: the links of such a page at depth d are followed if and
\* only if d < max_drilling_depth - 1, whatever max_drilling_depth is.
C19_FollowedIffBelowLimit ==
    pc = "returned" =>
      \A i \in LogIndex :
        C19_Case(i) => (Kids(i) # <<>> <=> fetch_log[i].depth < Depth - 1)

\* C19 amended: the links of such a page at depth d are followed if and only
\* if d < max_drilling_depth - 1 and d < 2; no page at depth 2 or deeper is
\* expanded, whatever max_drilling_depth is.
C19_FollowedIffBelowLimitAndTwo ==
    pc = "returned" =>
      \A i \in LogIndex :
        C19_Case(i) =>
          (Kids(i) # <<>> <=> fetch_log[i].depth < Depth - 1 /\ fetch_log[i].depth < 2)

\* with max_drilling_depth = 4 a page at depth 1 is expanded and a page at
\* depth 2, whose response lists an unvisited link, is not
C19_Witness ==
    /\ pc = "returned"
    /\ Depth = 4
    /\ \E i \in LogIndex : \E j \in LogIndex :
         /\ fetch_log[i].depth = 1 /\ C19_Case(i) /\ Kids(i) # <<>>
         /\ fetch_log[j].depth = 2 /\ C19_Case(j) /\ Kids(j) = <<>>

\* the page fetch_log[i] is expanded: the oracle read it and its level is
\* above the last one
C20_Case(i) ==
    /\ fetch_log[i].how = "intelligent"
    /\ fetch_log[i].depth < Depth - 1
    /\ fetch_log[i].depth < 2

OwnLinks(i) ==
    SelectSeq(Fresh(Take(AcceptedLinks(i), MaxLinks(fetch_log[i].depth + 1)), SeenBy(i)),
              LAMBDA u : \A j \in LogIndex :
                           fetch_log[j].url = u => fetch_log[j].parent = fetch_log[i].url)

Pending(st, p) ==
    LET fs == {k \in DOMAIN st : st[k].depth >= 1 /\ st[k].parent = p}
    IN IF fs = {} THEN 0 ELSE Len(st[CHOOSE k \in fs : TRUE].links)

\* the number of pages fetched from the page p
FetchedFrom(p) == Cardinality({j \in LogIndex : fetch_log[j].parent = p /\ fetch_log[j].depth >= 1})

\* C21: the links tried from one page never exceed max_links_per_level[d+1]
\* (2 without that key): the links still to be tried plus the pages already
\* fetched from the page stay within the budget, and every call of
\* _scrape_and_extract for a link, fetching or not, takes one link off.
C21_AttemptsWithinBudget ==
    /\ [](\A k \in DOMAIN stack :
            stack[k].depth >= 1 =>
              Len(stack[k].links) + FetchedFrom(stack[k].parent) <= MaxLinks(stack[k].depth))
    /\ [][attempts' = attempts + 1 /\ Top.depth >= 1 =>
            Pending(stack', Top.parent) = Len(Top.links) - 1]_vars

\* a page at depth 1 whose response lists more accepted links than the default
\* budget of 2, after one of its two attempts met a visited link
C21_Witness ==
    /\ pc = "crawl"
    /\ Top.depth = 2
    /\ 2 \notin DOMAIN config.max_links_per_level
    /\ Len(Top.links) = 1
    /\ FetchedFrom(Top.parent) = 0
    /\ \E i \in LogIndex :
         /\ fetch_log[i].url = Top.parent
         /\ Len(AcceptedLinks(i)) > MaxLinksDefault

\* the urls fetched at depth 0, in fetch order
SeedsFetched ==
    LET es == SelectSeq(fetch_log, LAMBDA e : e.depth = 0)
    IN [k \in 1..Len(es) |-> es[k].url]

\* the page from which the recursion that fetched fetch_log[j] started: the
\* last page fetched before it one level higher
Opener(j) ==
    LET above == {i \in 1..(j - 1) : fetch_log[i].depth = fetch_log[j].depth - 1}
    IN IF above = {} THEN None ELSE fetch_log[SetMax(above)].url

\* C22: one fetch per step, appended to those made; the seeds are the personal
\* site, or else the website, then the profile page, fetched in that order;
\* below a seed the order is depth first: a page is fetched from the last page
\* fetched one level higher, so the subtree of a link is complete before its
\* next sibling and the subtree of the first seed before the second seed;
\* siblings come in the order of the response; and when the crawl is over
\* every seed was fetched exactly once, at depth 0 or below an earlier seed.
C22_SequentialDepthFirst ==
    /\ [](pc \in {"crawl", "score", "returned"} =>
            /\ urls_to_scrape = _identify_scraping_targets(profile_data, ProfileOnlyInfo)
            /\ SeedsFetched = SelectSeq(Fresh(urls_to_scrape, {}),
                                        LAMBDA u : u \in Range(SeedsFetched))
            /\ \A j \in LogIndex :
                 /\ fetch_log[j].depth = 0 => fetch_log[j].parent = None
                 /\ fetch_log[j].depth >= 1 => fetch_log[j].parent = Opener(j)
            /\ \A i \in LogIndex :
                 Kids(i) = SelectSeq(Fresh(AcceptedLinks(i), {}), LAMBDA u : u \in Range(Kids(i)))
            /\ pc = "returned" =>
                 \A u \in Range(urls_to_scrape) :
                   Cardinality({j \in LogIndex : fetch_log[j].url = u}) = 1)
    /\ [][/\ Len(fetch_log') <= Len(fetch_log) + 1
          /\ SubSeq(fetch_log', 1, Len(fetch_log)) = fetch_log]_vars

\* two seeds; the first link of the first seed has a page below it, fetched
\* before its sibling, and the second seed was fetched inside that subtree
C22_Witness ==
    /\ pc = "returned"
    /\ Len(urls_to_scrape) = 2
    /\ Len(fetch_log) >= 4
    /\ fetch_log[1].url = urls_to_scrape[1]
    /\ fetch_log[2].depth = 1 /\ fetch_log[3].depth = 2 /\ fetch_log[4].depth = 1
    /\ \E j \in LogIndex : fetch_log[j].depth >= 1 /\ fetch_log[j].url = urls_to_scrape[2]
    /\ SeedsFetched = <<urls_to_scrape[1]>>

\* C23 as stated: the deepest level of the crawl gets the prompt without links
\* and nothing is fetched from its pages; above it, depth 0 gets the discovery
\* prompt and the levels between the focused prompt.
C23_DeepestFieldsOnly ==
    \A i \in LogIndex :
      fetch_log[i].prompt # None =>
        IF fetch_log[i].depth = Depth - 1
        THEN fetch_log[i].prompt = "level_2" /\ Kids(i) = <<>>
        ELSE IF fetch_log[i].depth = 0 THEN fetch_log[i].prompt = "level_0"
        ELSE fetch_log[i].prompt = "level_1"

\* C23 amended: the prompt depends on the depth alone: discovery at depth 0,
\* focused at depth 1, without links at depth 2 and beyond; every page the
\* oracle is asked about gets one of them, and nothing is fetched from a page
\* of the deepest level or of depth 2 and beyond. The deepest level gets the
\* prompt without links only when max_drilling_depth is 3 or more.
C23_PromptByDepthAlone ==
    \A i \in LogIndex :
      /\ fetch_log[i].prompt # None <=> fetch_log[i].how \in {"intelligent", "fallback"}
      /\ fetch_log[i].prompt # None =>
           /\ fetch_log[i].depth = 0 => fetch_log[i].prompt = "level_0"
           /\ fetch_log[i].depth = 1 => fetch_log[i].prompt = "level_1"
           /\ fetch_log[i].depth >= 2 => fetch_log[i].prompt = "level_2"
           /\ fetch_log[i].depth = Depth - 1 \/ fetch_log[i].depth >= 2 => Kids(i) = <<>>

\* with the default max_drilling_depth a page of the deepest level got the
\* focused prompt, its response listed links, and none was fetched
C23_Witness ==
    /\ pc = "returned"
    /\ Depth = DefaultDepth
    /\ \E i \in LogIndex :
         /\ fetch_log[i].depth = Depth - 1
         /\ fetch_log[i].prompt = "level_1"
         /\ fetch_log[i].oracle = FiveLinksResponse
         /\ Kids(i) = <<>>

\* TRUE iff the line loop of _parse_llm_response takes the value of the line
Usable(t) ==
    IF t.kind = "PHONE:" THEN t.value # "" /\ t.value # "None"
    ELSE t.value # "" /\ StartsWith(t.value, "http")

\* the values a response supplies on its lines of kind key, in order
Supplied(response, key) ==
    LET ts == SelectSeq(TokensOf(response), LAMBDA t : t.kind = key /\ Usable(t))
    IN [k \in 1..Len(ts) |-> ts[k].value]

\* the websites a response supplies that count as personal sites
SuppliedPersonal(response) == SelectSeq(Supplied(response, "WEBSITE:"), PersonalSite)

\* the value of a field after a page: the last of the values supplied, if any
LastWins(values, old) == IF values = <<>> THEN old ELSE values[Len(values)]

\* the page just read was parsed from an oracle response
OraclePageRead ==
    /\ Len(fetch_log') = Len(fetch_log) + 1
    /\ fetch_log'[Len(fetch_log')].how = "intelligent"

\* what holds of linkedin, twitter, phone, personal_site and the two platform
\* entries after an oracle response was parsed
OthersLastWin ==
    LET response == fetch_log'[Len(fetch_log')].oracle
    IN /\ contact_info'.linkedin = LastWins(Supplied(response, "LINKEDIN:"), contact_info.linkedin)
       /\ contact_info'.twitter = LastWins(Supplied(response, "TWITTER:"), contact_info.twitter)
       /\ contact_info'.phone = LastWins(Supplied(response, "PHONE:"), contact_info.phone)
       /\ contact_info'.personal_site =
            LastWins(SuppliedPersonal(response), contact_info.personal_site)
       /\ \A p \in {"linkedin", "twitter"} :
            LET values == Supplied(response, IF p = "linkedin" THEN "LINKEDIN:" ELSE "TWITTER:")
            IN IF values # <<>>
               THEN p \in DOMAIN contact_info'.social_links
                    /\ contact_info'.social_links[p] = values[Len(values)]
               ELSE /\ p \in DOMAIN contact_info'.social_links <=> p \in DOMAIN contact_info.social_links
                    /\ p \in DOMAIN contact_info.social_links =>
                         contact_info'.social_links[p] = contact_info.social_links[p]

\* C24 as stated: a value that an oracle response supplies for website,
\* personal_site, phone, linkedin, twitter or a platform replaces the current
\* one, and a field without a supplied value is left as it is.
C24_LastWriterWins ==
    [][OraclePageRead =>
         /\ OthersLastWin
         /\ contact_info'.website =
              LastWins(Supplied(fetch_log'[Len(fetch_log')].oracle, "WEBSITE:"), contact_info.website)]_vars

\* C24 amended: that holds of phone, linkedin, twitter, their social_links
\* entries and personal_site (for a supplied website that is a personal site);
\* website is written only while it is blank, with the first website supplied,
\* and keeps its value ever after.
C24_LastWriterWinsButWebsite ==
    [][OraclePageRead =>
         /\ OthersLastWin
         /\ contact_info'.website =
              IF Truthy(contact_info.website)
              THEN contact_info.website
              ELSE LET values == Supplied(fetch_log'[Len(fetch_log')].oracle, "WEBSITE:")
                   IN IF values = <<>> THEN contact_info.website ELSE values[1]]_vars

\* an oracle response replaced the twitter url of the profile and its social
\* entry, and left the website of the profile although it supplied another
C24_Witness ==
    /\ pc = "returned"
    /\ Truthy(profile_data.twitter_username)
    /\ contact_info.twitter = "https://x.com/jd"
    /\ contact_info.social_links["twitter"] = "https://x.com/jd"
    /\ Truthy(profile_data.blog)
    /\ contact_info.website = profile_data.blog
    /\ \E i \in LogIndex :
         /\ fetch_log[i].how = "intelligent"
         /\ Supplied(fetch_log[i].oracle, "WEBSITE:") # <<>>

\* C25 as stated: while the pages are processed, a singleton field that holds
\* a value keeps that value.
C25_SetOnce ==
    [][pc = "crawl" =>
         \A f \in SingletonFields : Truthy(contact_info[f]) => contact_info'[f] = contact_info[f]]_vars

\* TRUE iff the step read a page and extracted from its content
PageExtracted ==
    /\ Len(fetch_log') = Len(fetch_log) + 1
    /\ fetch_log'[Len(fetch_log')].how \in {"regex", "intelligent", "fallback"}

\* C25 amended: while the pages are processed, website keeps its value once it
\* has one; personal_site, phone, linkedin and twitter may be replaced by
\* another non-empty value, by a page that was read, and never become blank.
C25_WebsiteSetOnce ==
    [][pc = "crawl" =>
         /\ Truthy(contact_info.website) => contact_info'.website = contact_info.website
         /\ \A f \in SingletonFields :
              /\ Truthy(contact_info[f]) => Truthy(contact_info'[f])
              /\ contact_info'[f] # contact_info[f] => PageExtracted]_vars

\* a page read by the regex extractor set the twitter url, a later oracle page
\* replaced it, and the website that an oracle page had set is still there
C25_Witness ==
    /\ pc = "returned"
    /\ ~Truthy(profile_data.blog) /\ ~Truthy(profile_data.website)
    /\ contact_info.website = "https://jane.blog"
    /\ contact_info.twitter = "https://x.com/jd"
    /\ \E i \in LogIndex : \E j \in LogIndex :
         /\ i < j
         /\ fetch_log[i].how = "regex" /\ fetch_log[i].content = ShortPage
         /\ fetch_log[j].how = "intelligent" /\ fetch_log[j].oracle = MixedLinksResponse

\* TRUE of the links that contain, in any letter case, one of the patterns
\* /topics/, /trending/, /hashtag/, /search/, github.com/topics,
\* github.com/trending, linkedin.com/feed, twitter.com/search
DenylistedTable ==
    [l \in KnownLinks |-> \E pattern \in skip_patterns : Contains(Lower(l), pattern)]

Denylisted(link) == DenylistedTable[link]

\* C26: of the links a response lists, the accepted ones are absolute http
\* links and none is denylisted; every absolute http link that is not
\* denylisted and is not the url of the page itself is accepted; the accepted
\* links keep the order of the response; and no denylisted url is fetched at
\* depth 1 or deeper.
C26_LinkPolicy ==
    \A i \in LogIndex :
      /\ fetch_log[i].depth >= 1 => ~Denylisted(fetch_log[i].url)
      /\ fetch_log[i].how = "intelligent" =>
           LET listed == ListedLinks(fetch_log[i].oracle)
               accepted == PolicyAccepted(i)
           IN /\ \A k \in DOMAIN accepted :
                   StartsWith(accepted[k], "http") /\ ~Denylisted(accepted[k])
              /\ \A k \in DOMAIN listed :
                   /\ StartsWith(listed[k], "http")
                   /\ ~Denylisted(listed[k])
                   /\ listed[k] # fetch_log[i].url
                   => listed[k] \in Range(accepted)
              /\ accepted = SelectSeq(listed, LAMBDA l : l \in Range(accepted))
              /\ Range(Kids(i)) \subseteq Range(accepted)

\* the profile page listed a denylisted link, a relative link, a contact page
\* and itself: the contact page was fetched, the others were not
C26_Witness ==
    /\ pc = "returned"
    /\ \E i \in LogIndex :
         /\ fetch_log[i].how = "intelligent"
         /\ fetch_log[i].url = ProfileUrl
         /\ fetch_log[i].oracle = MixedLinksResponse
         /\ TopicsUrl \in Range(ListedLinks(fetch_log[i].oracle))
         /\ Denylisted(TopicsUrl)
         /\ ProfileUrl \notin Range(PolicyAccepted(i))
         /\ Kids(i) = <<ContactUrl>>

\* C27: with a token and the configuration of config/settings.py, whatever
\* the rendering service answers for a url handed to the fetcher, the fetcher
\* returns the text of the answer when the status is 200 and None otherwise.
C27_BodyOnHttp200 ==
    jina_token /\ ~config.has_request_timeout =>
      \A i \in LogIndex : \A http \in HttpOutcomes :
        _scrape_url(fetch_log[i].url, http) =
          IF ~http.raises /\ http.status = 200 THEN http.text ELSE None

\* C28 as stated: an extractor with the intelligent client hands every page
\* that was read to the intelligent oracle, and one without it hands every
\* page to the regex extractor.
C28_OracleFixedAtConstruction ==
    \A i \in LogIndex :
      fetch_log[i].how # "absent" =>
        IF openai_client
        THEN fetch_log[i].how \in {"intelligent", "fallback"}
        ELSE fetch_log[i].how = "regex"

\* C28 amended: the choice is made page by page: a page goes to the
\* intelligent oracle when the client was initialised and the page has more
\* than 100 characters, and to the regex extractor otherwise; a page given to
\* the oracle is parsed from its response, or read by the regex extractor when
\* the oracle call fails.
C28_OracleChosenPerPage ==
    \A i \in LogIndex :
      fetch_log[i].how # "absent" =>
        /\ fetch_log[i].how = "regex" <=>
             ~(openai_client /\ Len(fetch_log[i].content) > OracleMinLen)
        /\ fetch_log[i].how = "intelligent" <=>
             (openai_client /\ Len(fetch_log[i].content) > OracleMinLen
              /\ fetch_log[i].oracle \in Responses)
        /\ fetch_log[i].how \in {"regex", "intelligent", "fallback"}

\* one extractor, with the client: a short page went to the regex extractor
\* and a long one to the oracle
C28_Witness ==
    /\ pc = "returned"
    /\ openai_client
    /\ \E i \in LogIndex : \E j \in LogIndex :
         /\ fetch_log[i].how = "regex" /\ fetch_log[i].content = ShortPage
         /\ fetch_log[j].how = "intelligent" /\ fetch_log[j].content = LongPage

\* C29: in the record that extract_from_profile returns, linkedin and twitter,
\* when set, are the values of social_links['linkedin'] and social_links['twitter'].
C29_FieldsMirrorSocialLinks ==
    pc = "returned" =>
      \A p \in {"linkedin", "twitter"} :
        Truthy(contact_info[p]) =>
          p \in DOMAIN contact_info.social_links /\ contact_info.social_links[p] = contact_info[p]

\* TRUE iff the page fetch_log[i] offers url as one of the links it follows
Offers(i, url) ==
    /\ fetch_log[i].how = "intelligent"
    /\ fetch_log[i].depth < 2
    /\ fetch_log[i].depth < Depth - 1
    /\ url \in Range(WithinBudget(i))

\* C30 as stated: a url is fetched at its least distance from a seed: a seed
\* at depth 0, and a url offered by a page at depth d at depth d + 1 or less.
C30_MinimumDepth ==
    \A j \in LogIndex :
      /\ fetch_log[j].url \in Range(urls_to_scrape) => fetch_log[j].depth = 0
      /\ \A i \in LogIndex :
           Offers(i, fetch_log[j].url) => fetch_log[j].depth <= fetch_log[i].depth + 1

\* C30 amended: a url is fetched once, at the depth at which the depth-first
\* order reaches it first: at depth 0 as a seed, or one level below the page
\* that offered it and was being expanded when the url was still unvisited.
\* That depth can exceed the least distance from a seed, so the prompt a url
\* gets and whether its links are followed depend on the order of the links.
C30_FirstReachDepth ==
    \A j \in LogIndex :
      /\ \A k \in LogIndex : k # j => fetch_log[k].url # fetch_log[j].url
      /\ fetch_log[j].depth = 0 => fetch_log[j].url \in Range(urls_to_scrape)
      /\ fetch_log[j].depth >= 1 =>
           \E i \in 1..(j - 1) :
             /\ fetch_log[i].url = fetch_log[j].parent
             /\ fetch_log[i].depth = fetch_log[j].depth - 1
             /\ Offers(i, fetch_log[j].url)

\* the seed offered the profile page, a seed itself, as its second link; the
\* page of the first link offered it too, and it was fetched at depth 2
C30_Witness ==
    /\ pc = "returned"
    /\ \E i \in LogIndex : \E j \in LogIndex :
         /\ fetch_log[i].depth = 0
         /\ Offers(i, fetch_log[j].url)
         /\ fetch_log[j].depth = 2
         /\ fetch_log[j].url \in Range(urls_to_scrape)

====
